---- MODULE Spec2Model ----
(***************************************************************************)
(* Model of the n8n node "Webhook Path Choice"                             *)
(* (src/nodes/WebhookPathChoice.node.ts).                                   *)
(*                                                                         *)
(* The node has three pieces of code:                                      *)
(*   configuredOutputs(parameters)  the outputs expression (lanes)         *)
(*   execute()                      run-start: builds the approval request *)
(*                                  and puts the execution to wait         *)
(*   webhook()                      resume: routes the callback body to    *)
(*                                  the output of the chosen action        *)
(*                                                                         *)
(* JavaScript arrays are 0-based, TLA+ sequences 1-based: the model keeps  *)
(* the 0-based indexes of the code and reads slot i of an array with       *)
(* At(arr, i).                                                             *)
(***************************************************************************)
EXTENDS Integers, Sequences, FiniteSets, Bags, TLC

VARIABLES
    parameters,   \* the node parameters: subject, message, actions
    nodeId,       \* this.getNode().id / $nodeId
    lanes,        \* the outputs the host evaluated last from configuredOutputs
    phase,        \* where the run is: idle, built, waitSet, suspended, dispatching, failed
    inputData,    \* this.getInputData() of the run
    resumeUrl,    \* $execution.resumeUrl of the run
    requestBody,  \* the request built by execute (line 119)
    waitTill,     \* what putExecutionToWait was given
    execOutput,   \* what execute returned
    inflight,     \* callback bodies the host accepted and has not yet handed to webhook()
    results,      \* one entry per finished webhook() call: the body and its outcome
    log,          \* what was written to this.logger
    lastCall      \* the entry point the host called last

vars == <<parameters, nodeId, lanes, phase, inputData, resumeUrl, requestBody,
          waitTill, execOutput, inflight, results, log, lastCall>>

----------------------------------------------------------------------------
(* Bounds of the model *)

\* longest action list a configuration holds
MaxActions == 2

\* callbacks the host accepts for one run (in flight or finished)
MaxCallbacks == 2

----------------------------------------------------------------------------
(* JavaScript values that can sit in a JSON body field *)

Undefined == [kind |-> "undefined", s |-> "", n |-> 0]
Null == [kind |-> "null", s |-> "", n |-> 0]
Str(x) == [kind |-> "string", s |-> x, n |-> 0]
Num(k) == [kind |-> "number", s |-> "", n |-> k]

\* variant: only a missing or null action counts as not received
TruthyDefined(v) ==
    CASE v.kind = "string" -> TRUE
      [] v.kind = "number" -> v.n # 0
      [] OTHER -> FALSE

\* `!action` is the negation of this (line 153)
Truthy(v) ==
    CASE v.kind = "string" -> v.s # ""
      [] v.kind = "number" -> v.n # 0
      [] OTHER -> FALSE

\* `a.name === action` with a.name a string (line 157)
StrictEquals(name, v) == v.kind = "string" /\ v.s = name

Digit(d) ==
    CASE d = 0 -> "0" [] d = 1 -> "1" [] d = 2 -> "2" [] d = 3 -> "3"
      [] d = 4 -> "4" [] d = 5 -> "5" [] d = 6 -> "6" [] d = 7 -> "7"
      [] d = 8 -> "8" [] d = 9 -> "9"

RECURSIVE DecimalString(_)
\* a non-negative integer inside a template literal
DecimalString(k) ==
    IF k < 10 THEN Digit(k) ELSE DecimalString(k \div 10) \o Digit(k % 10)

\* `${v}` (lines 19 and 159)
TemplateString(v) ==
    CASE v.kind = "string" -> v.s
      [] v.kind = "number" -> DecimalString(v.n)
      [] v.kind = "null" -> "null"
      [] OTHER -> "undefined"

\* slot i (0-based) of an array
At(arr, i) == arr[i + 1]

----------------------------------------------------------------------------
(* Configurations *)

\* action names a user may type; '' is the default of the name field (line 97)
Names == {"", "Approve", "Action 1"}

ActionLists == UNION {[1..k -> [name : Names]] : k \in 0..MaxActions}

\* parameters.actions: the fixedCollection with its `action` list, or without it
ActionsValues ==
    {[present |-> TRUE, action |-> l] : l \in ActionLists}
        \cup {[present |-> FALSE, action |-> <<>>]}

Subjects == {"Deploy v2"}
Messages == {"Ship it?"}

Configs == [subject : Subjects, message : Messages, actions : ActionsValues]

\* the defaults of the description (lines 55, 63, 75-87)
DefaultParameters ==
    [subject |-> "",
     message |-> "",
     actions |-> [present |-> TRUE,
                  action |-> <<[name |-> "Approve"], [name |-> "Decline"]>>]]

NodeIds == {"n1", "n2"}
ResumeUrls == {"http://host/webhook-waiting/7"}
InputSets == {<<>>, <<[json |-> "in0"], [json |-> "in1"]>>}

\* callback bodies: the action field and one other field
Bodies ==
    {[action |-> a, note |-> Undefined] :
        a \in {Undefined, Null, Num(7), Str("Other")} \cup {Str(x) : x \in Names}}
    \cup {[action |-> a, note |-> Str("too risky")] : a \in {Undefined, Str("Decline")}}

----------------------------------------------------------------------------
(* configuredOutputs (lines 14-21) *)

\* `(parameters.actions as IDataObject)?.action ?? []` (line 16)
actionList(params) ==
    IF params.actions.present THEN params.actions.action ELSE <<>>

\* `action.name || `Action ${index}`` (line 19), index 0-based
displayNameOf(action, index) ==
    IF action.name # "" THEN action.name
    ELSE "Action " \o TemplateString(Num(index))

\* variant: the fallback counts from 1
configuredOutputsOneBased(params) ==
    [i \in 1..Len(actionList(params)) |->
        [type |-> "main", displayName |-> displayNameOf(actionList(params)[i], i)]]

\* variant: actions without a name get no output
configuredOutputsSkipEmpty(params) ==
    LET named == SelectSeq(actionList(params), LAMBDA a : a.name # "")
    IN [i \in 1..Len(named) |->
           [type |-> "main", displayName |-> displayNameOf(named[i], i - 1)]]

\* one output for each action
configuredOutputs(params) ==
    [i \in 1..Len(actionList(params)) |->
        [type |-> "main",
         displayName |-> displayNameOf(actionList(params)[i], i - 1)]]

----------------------------------------------------------------------------
(* webhook (lines 147-174) *)

\* variant: the fallback is the default action list, not []
getNodeParameterActionsDefault(params) ==
    IF params.actions.present THEN params.actions.action
    ELSE <<[name |-> "Approve"], [name |-> "Decline"]>>

\* this.getNodeParameter('actions.action', []) (lines 113, 156): the list, or
\* the fallback [] when the path is not set
getNodeParameterActions(params) ==
    IF params.actions.present THEN params.actions.action ELSE <<>>

\* variant: the last match wins
findLastIndex(allActions, action) ==
    IF \E i \in 1..Len(allActions) : StrictEquals(allActions[i].name, action)
    THEN (CHOOSE i \in 1..Len(allActions) :
            /\ StrictEquals(allActions[i].name, action)
            /\ \A j \in (i + 1)..Len(allActions) :
                   ~StrictEquals(allActions[j].name, action)) - 1
    ELSE -1

\* variant: the action is looked up among the lanes' display names
findIndexByDisplayName(allActions, action) ==
    IF \E i \in 1..Len(allActions) :
           StrictEquals(displayNameOf(allActions[i], i - 1), action)
    THEN (CHOOSE i \in 1..Len(allActions) :
            /\ StrictEquals(displayNameOf(allActions[i], i - 1), action)
            /\ \A j \in 1..(i - 1) :
                   ~StrictEquals(displayNameOf(allActions[j], j - 1), action)) - 1
    ELSE -1

\* allActions.findIndex((a) => a.name === action) (line 157): 0-based, -1 if none
findIndex(allActions, action) ==
    IF \E i \in 1..Len(allActions) : StrictEquals(allActions[i].name, action)
    THEN (CHOOSE i \in 1..Len(allActions) :
            /\ StrictEquals(allActions[i].name, action)
            /\ \A j \in 1..(i - 1) : ~StrictEquals(allActions[j].name, action)) - 1
    ELSE -1

\* this.helpers.returnJsonArray(body) for an object body (line 162)
returnJsonArray(body) == <<[json |-> body]>>

\* throw new NodeOperationError(node, message)
Throw(message) ==
    [kind |-> "error", message |-> message, webhookResponse |-> "",
     workflowData |-> <<>>]

\* return { webhookResponse, workflowData } (lines 170-173)
Return(webhookResponse, workflowData) ==
    [kind |-> "response", message |-> "", webhookResponse |-> webhookResponse,
     workflowData |-> workflowData]

\* variant: the record is written to slot 0 whatever the index
buildReturnArrayFirst(allActions, index, body) ==
    LET empty == [i \in 1..Len(allActions) |-> <<>>]
    IN [empty EXCEPT ![1] =
            <<[json |-> body, pairedItem |-> [item |-> 0]]>>]

\* variant: the record keeps only the action field of the body
buildReturnArrayActionOnly(allActions, index, body) ==
    LET empty == [i \in 1..Len(allActions) |-> <<>>]
    IN [empty EXCEPT ![index + 1] =
            <<[json |-> [action |-> body.action, note |-> Undefined],
               pairedItem |-> [item |-> 0]]>>]

\* lines 161-163: one empty array per action, the body in slot `index`
buildReturnArray(allActions, index, body) ==
    LET empty == [i \in 1..Len(allActions) |-> <<>>]
        filled == [empty EXCEPT ![index + 1] = returnJsonArray(body)]
    IN [filled EXCEPT ![index + 1][1] =
            [json |-> @.json, pairedItem |-> [item |-> 0]]]

\* variant: the record is paired only when the run has an input item 0
webhookChecksInput(body, params) ==
    LET action == body.action
        allActions == getNodeParameterActions(params)
        index == findIndex(allActions, action)
    IN IF ~Truthy(action) THEN Throw("No \"action\" received.")
       ELSE IF index < 0
            THEN Throw("Unknown action: " \o TemplateString(action))
            ELSE IF inputData = <<>>
                 THEN Throw("No input item to pair with.")
                 ELSE Return("OK", buildReturnArray(allActions, index, body))

\* variant: the record always goes to the first slot
webhookFirstSlot(body, params) ==
    LET action == body.action
        allActions == getNodeParameterActions(params)
        index == findIndex(allActions, action)
    IN IF ~Truthy(action) THEN Throw("No \"action\" received.")
       ELSE IF index < 0
            THEN Throw("Unknown action: " \o TemplateString(action))
            ELSE Return("OK", buildReturnArray(allActions, 0, body))

\* variant: the missing-action check is left out
webhookNoActionCheck(body, params) ==
    LET action == body.action
        allActions == getNodeParameterActions(params)
        index == findIndex(allActions, action)
    IN IF index < 0
       THEN Throw("Unknown action: " \o TemplateString(action))
       ELSE Return("OK", buildReturnArray(allActions, index, body))

\* variant: an unknown action falls through to the first output
webhookUnknownToFirst(body, params) ==
    LET action == body.action
        allActions == getNodeParameterActions(params)
        index == findIndex(allActions, action)
    IN IF ~Truthy(action) THEN Throw("No \"action\" received.")
       ELSE IF index < 0 /\ allActions = <<>>
            THEN Throw("Unknown action: " \o TemplateString(action))
            ELSE Return("OK", buildReturnArray(allActions,
                                               IF index < 0 THEN 0 ELSE index, body))

\* variant: only the populated slot is returned
webhookCompact(body, params) ==
    LET action == body.action
        allActions == getNodeParameterActions(params)
        index == findIndex(allActions, action)
    IN IF ~Truthy(action) THEN Throw("No \"action\" received.")
       ELSE IF index < 0
            THEN Throw("Unknown action: " \o TemplateString(action))
            ELSE Return("OK", <<At(buildReturnArray(allActions, index, body), index)>>)

\* the outcome of webhook() for a body and the node parameters
webhook(body, params) ==
    LET action == body.action
        allActions == getNodeParameterActions(params)
        index == findIndex(allActions, action)
    IN IF ~Truthy(action) THEN Throw("No \"action\" received.")
       ELSE IF index < 0
            THEN Throw("Unknown action: " \o TemplateString(action))
            ELSE Return("OK", buildReturnArray(allActions, index, body))

----------------------------------------------------------------------------
(* The state machine: the host edits the parameters, evaluates the outputs,  *)
(* starts the run (execute), accepts callbacks for the waiting run and hands *)
(* each to webhook().                                                        *)

\* WAIT_INDEFINITELY of n8n-workflow (line 11): a date in the year 3000
WAIT_INDEFINITELY == "3000-01-01T00:00:00.000Z"

NoRequest == [built |-> FALSE]

Init ==
    /\ parameters = DefaultParameters
    /\ nodeId \in NodeIds
    /\ lanes = configuredOutputs(DefaultParameters)
    /\ phase = "idle"
    /\ inputData = <<>>
    /\ resumeUrl = ""
    /\ requestBody = NoRequest
    /\ waitTill = "unset"
    /\ execOutput = <<>>
    /\ inflight = EmptyBag
    /\ results = <<>>
    /\ log = <<>>
    /\ lastCall = "none"

\* The user edits the node's parameters (lines 50-106); the host evaluates the
\* outputs expression on the new parameters (line 38). No run is in progress.
Configure ==
    /\ lastCall' = "configure"
    /\ phase = "idle"
    /\ \E c \in Configs :
        /\ parameters' = c
        /\ lanes' = configuredOutputs(c)
    /\ UNCHANGED <<nodeId, phase, inputData, resumeUrl, requestBody, waitTill,
                   execOutput, inflight, results, log>>

\* variant: the resolver writes the display names back into the parameters
ResolveWritingBack ==
    /\ lastCall' = "configuredOutputs"
    /\ lanes' = configuredOutputs(parameters)
    /\ parameters' =
          [parameters EXCEPT !.actions.action =
              [i \in 1..Len(@) |-> [name |-> displayNameOf(@[i], i - 1)]]]
    /\ UNCHANGED <<nodeId, phase, inputData, resumeUrl, requestBody, waitTill,
                   execOutput, inflight, results, log>>

\* The host evaluates `={{(configuredOutputs)($parameter)}}` again (line 38),
\* at any time.
Resolve ==
    /\ lastCall' = "configuredOutputs"
    /\ lanes' = configuredOutputs(parameters)
    /\ UNCHANGED <<parameters, nodeId, phase, inputData, resumeUrl, requestBody,
                   waitTill, execOutput, inflight, results, log>>

\* variant: actions without a name are left out of the request
buildRequestBodyNamedOnly(subject, message, actions, url, id) ==
    [built |-> TRUE,
     subject |-> subject,
     message |-> message,
     webhook_url |-> url \o "/" \o id,
     actions |-> SelectSeq([i \in 1..Len(actions) |-> [name |-> actions[i].name]],
                           LAMBDA a : a.name # ""),
     account_uuid |-> "00000000-0000-4000-c025-000000000000"]

\* variant: the callback address is the resume url alone
buildRequestBodyNoNodeId(subject, message, actions, url, id) ==
    [built |-> TRUE,
     subject |-> subject,
     message |-> message,
     webhook_url |-> url,
     actions |-> [i \in 1..Len(actions) |-> [name |-> actions[i].name]],
     account_uuid |-> "00000000-0000-4000-c025-000000000000"]

\* lines 119-127
buildRequestBody(subject, message, actions, url, id) ==
    [built |-> TRUE,
     subject |-> subject,
     message |-> message,
     webhook_url |-> url \o "/" \o id,
     actions |-> [i \in 1..Len(actions) |-> [name |-> actions[i].name]],
     account_uuid |-> "00000000-0000-4000-c025-000000000000"]

\* execute, lines 111-129: read the parameters, the resume url and the node
\* id, build the request and log it. The host supplies the run's input items
\* and resume url.
ExecuteBuild ==
    /\ lastCall' = "execute"
    /\ phase = "idle"
    /\ \E items \in InputSets, url \in ResumeUrls :
        /\ inputData' = items
        /\ resumeUrl' = url
        /\ requestBody' = buildRequestBody(parameters.subject, parameters.message,
                                           getNodeParameterActions(parameters),
                                           url, nodeId)
        /\ log' = Append(log,
                    [level |-> "warn",
                     message |-> "Starting workflow with arguments:",
                     data |-> buildRequestBody(parameters.subject, parameters.message,
                                               getNodeParameterActions(parameters),
                                               url, nodeId)])
    /\ phase' = "built"
    /\ UNCHANGED <<parameters, nodeId, lanes, waitTill, execOutput, inflight, results>>

\* execute, lines 111-116: a host accessor (getNodeParameter,
\* evaluateExpression) throws; the exception leaves execute.
ExecuteThrow ==
    /\ lastCall' = "execute"
    /\ phase = "idle"
    /\ phase' = "failed"
    /\ UNCHANGED <<parameters, nodeId, lanes, inputData, resumeUrl, requestBody,
                   waitTill, execOutput, inflight, results, log>>

\* variant: the execution is put to wait before the request is built
ExecuteWaitFirst ==
    /\ lastCall' = "execute"
    /\ phase = "idle"
    /\ waitTill' = "3000-01-01T00:00:00.000Z"
    /\ phase' = "waitSet"
    /\ UNCHANGED <<parameters, nodeId, lanes, inputData, resumeUrl, requestBody,
                   execOutput, inflight, results, log>>

\* variant: the wait gets a deadline
ExecuteWaitWithDeadline ==
    /\ lastCall' = "execute"
    /\ phase = "built"
    /\ waitTill' = "2026-01-01T00:00:00.000Z"
    /\ phase' = "waitSet"
    /\ UNCHANGED <<parameters, nodeId, lanes, inputData, resumeUrl, requestBody,
                   execOutput, inflight, results, log>>

\* execute, line 142: await this.putExecutionToWait(WAIT_INDEFINITELY)
ExecuteWait ==
    /\ lastCall' = "execute"
    /\ phase = "built"
    /\ waitTill' = WAIT_INDEFINITELY
    /\ phase' = "waitSet"
    /\ UNCHANGED <<parameters, nodeId, lanes, inputData, resumeUrl, requestBody,
                   execOutput, inflight, results, log>>

\* variant: run-start returns one slot per configured action
ExecuteReturnPerLane ==
    /\ lastCall' = "execute"
    /\ phase = "waitSet"
    /\ execOutput' = [i \in 1..Len(getNodeParameterActions(parameters)) |-> inputData]
    /\ phase' = "suspended"
    /\ UNCHANGED <<parameters, nodeId, lanes, inputData, resumeUrl, requestBody,
                   waitTill, inflight, results, log>>

\* execute, line 143: return [this.getInputData()]; the host parks the run,
\* which now waits for its restart webhook (line 46)
ExecuteReturn ==
    /\ lastCall' = "execute"
    /\ phase = "waitSet"
    /\ execOutput' = <<inputData>>
    /\ phase' = "suspended"
    /\ UNCHANGED <<parameters, nodeId, lanes, inputData, resumeUrl, requestBody,
                   waitTill, inflight, results, log>>

\* callbacks accepted so far for the run
Accepted == BagCardinality(inflight) + Len(results)

\* The host receives a POST on the node's restart webhook (lines 39-49) while
\* the run waits, and accepts it. Two callbacks may both be accepted before
\* either has been handled.
Deliver ==
    /\ lastCall' = "deliver"
    /\ phase = "suspended"
    /\ Accepted < MaxCallbacks
    /\ \E body \in Bodies : inflight' = inflight (+) SetToBag({body})
    /\ UNCHANGED <<parameters, nodeId, lanes, phase, inputData, resumeUrl,
                   requestBody, waitTill, execOutput, results, log>>

\* what webhook() logs for a body and its outcome (lines 148 and 164)
webhookLog(body, outcome) ==
    <<[level |-> "info", message |-> "Webhook received", data |-> body]>>
    \o (IF outcome.kind = "response"
        THEN <<[level |-> "info", message |-> "Webhook response: ",
                data |-> outcome.workflowData]>>
        ELSE <<>>)

\* The host hands an accepted callback to webhook() (lines 147-174). On a
\* response the host resumes the run with the workflowData; on an exception
\* the run is left as it was.
Webhook ==
    \E body \in BagToSet(inflight) :
        /\ inflight' = inflight (-) SetToBag({body})
        /\ results' = Append(results,
                             [body |-> body, outcome |-> webhook(body, parameters)])
        /\ log' = log \o webhookLog(body, webhook(body, parameters))
        /\ phase' = IF webhook(body, parameters).kind = "response"
                    THEN "dispatching" ELSE phase
        /\ lastCall' = "webhook"
        /\ UNCHANGED <<parameters, nodeId, lanes, inputData, resumeUrl,
                       requestBody, waitTill, execOutput>>

Next ==
    \/ Configure
    \/ Resolve
    \/ ExecuteBuild
    \/ ExecuteThrow
    \/ ExecuteWait
    \/ ExecuteReturn
    \/ Deliver
    \/ Webhook

Spec == Init /\ [][Next]_vars

----------------------------------------------------------------------------
(* Properties *)

\* the configured action list, and the name of the action at 0-based index k
Configured == IF parameters.actions.present THEN parameters.actions.action ELSE <<>>
NameAt(k) == Configured[k + 1].name
Slots == 0..(Len(Configured) - 1)

\* the finished webhook() calls
Calls == 1..Len(results)
IsResponse(r) == results[r].outcome.kind = "response"
IsError(r) == results[r].outcome.kind = "error"
ActionOf(r) == results[r].body.action

\* the body's action is a string equal to the name at k and to no name below k
FirstMatch(r, k) ==
    /\ ActionOf(r).kind = "string"
    /\ NameAt(k) = ActionOf(r).s
    /\ \A j \in Slots : j < k => NameAt(j) # ActionOf(r).s

\* the outcome is a result whose slot k holds one record and whose other
\* slots hold none
OnlySlot(r, k) ==
    /\ IsResponse(r)
    /\ Len(results[r].outcome.workflowData) = Len(Configured)
    /\ Len(At(results[r].outcome.workflowData, k)) = 1
    /\ \A j \in Slots : j # k => At(results[r].outcome.workflowData, j) = <<>>

\* the outcome is an exception carrying this message, and nothing else
FailsWith(r, message) ==
    /\ IsError(r)
    /\ results[r].outcome.message = message
    /\ results[r].outcome.workflowData = <<>>
    /\ results[r].outcome.webhookResponse = ""

\* C1 as stated: a callback whose action is present and equals the name of
\* the action at index k (no lower index having that name) gets a result
\* whose slot k is a singleton and whose other slots are empty.
C1_AsStated ==
    \A r \in Calls : \A k \in Slots : FirstMatch(r, k) => OnlySlot(r, k)

\* C1 amended: the same for a callback whose action is not the empty string.
C1_DispatchToMatchedSlot ==
    \A r \in Calls : \A k \in Slots :
        (FirstMatch(r, k) /\ ActionOf(r).s # "") => OnlySlot(r, k)

C1_Witness ==
    \E r \in Calls : FirstMatch(r, 1) /\ ActionOf(r).s # "" /\ OnlySlot(r, 1)

\* C2: for one run, at most one callback produces a dispatch result.
C2_AtMostOneDispatch ==
    Cardinality({r \in Calls : IsResponse(r)}) <= 1

\* some name sits at two indexes of the configured list
Duplicated(name) ==
    \E i, j \in Slots : i # j /\ NameAt(i) = name /\ NameAt(j) = name

LowestIndexOf(name) ==
    CHOOSE k \in Slots : NameAt(k) = name /\ \A j \in Slots : NameAt(j) = name => k <= j

\* C3 as stated: with a name configured several times, a callback with that
\* action is dispatched to the lowest index carrying the name.
C3_AsStated ==
    \A r \in Calls :
        (ActionOf(r).kind = "string" /\ Duplicated(ActionOf(r).s))
            => /\ IsResponse(r)
               /\ At(results[r].outcome.workflowData,
                     LowestIndexOf(ActionOf(r).s)) # <<>>
               /\ \A j \in Slots : j # LowestIndexOf(ActionOf(r).s)
                      => At(results[r].outcome.workflowData, j) = <<>>

\* C3 amended: the same for a duplicated name that is not the empty string.
C3_FirstMatchWins ==
    \A r \in Calls :
        (ActionOf(r).kind = "string" /\ ActionOf(r).s # ""
            /\ Duplicated(ActionOf(r).s))
            => /\ IsResponse(r)
               /\ At(results[r].outcome.workflowData,
                     LowestIndexOf(ActionOf(r).s)) # <<>>
               /\ \A j \in Slots : j # LowestIndexOf(ActionOf(r).s)
                      => At(results[r].outcome.workflowData, j) = <<>>

C3_Witness ==
    \E r \in Calls :
        /\ ActionOf(r) = Str("Approve")
        /\ Configured = <<[name |-> "Approve"], [name |-> "Approve"]>>
        /\ Len(At(results[r].outcome.workflowData, 0)) = 1
        /\ At(results[r].outcome.workflowData, 1) = <<>>

\* C4: a callback without the action field fails with the missing-action
\* error; there is no dispatch result and no acknowledgement.
C4_MissingAction ==
    \A r \in Calls :
        ActionOf(r).kind = "undefined" => FailsWith(r, "No \"action\" received.")

C4_Witness ==
    \E r \in Calls :
        /\ ActionOf(r).kind = "undefined"
        /\ results[r].body.note = Str("too risky")
        /\ Len(Configured) = 2
        /\ IsError(r)

\* the action is present (a value other than null) and is the name of no
\* configured action
MatchesNone(r) ==
    /\ ActionOf(r).kind \notin {"undefined", "null"}
    /\ \A k \in Slots : ~(ActionOf(r).kind = "string" /\ NameAt(k) = ActionOf(r).s)

\* the unknown-action message for the value of the action field (a string,
\* or the number 7, the one number among Bodies)
UnknownMessage(v) ==
    IF v.kind = "string" THEN "Unknown action: " \o v.s
    ELSE "Unknown action: 7"

\* C5 as stated: a callback whose action is present and names no configured
\* action fails with the unknown-action error naming the value.
C5_AsStated ==
    \A r \in Calls : MatchesNone(r) => FailsWith(r, UnknownMessage(ActionOf(r)))

\* C5 amended: the same for an action that is not the empty string.
C5_UnknownAction ==
    \A r \in Calls :
        (MatchesNone(r) /\ ActionOf(r) # Str(""))
            => FailsWith(r, UnknownMessage(ActionOf(r)))

C5_Witness ==
    \E r \in Calls :
        /\ ActionOf(r) = Str("Other")
        /\ Len(Configured) = 2
        /\ FailsWith(r, "Unknown action: Other")

\* C6: the resolver gives one lane per configured action, in the order of
\* the actions (a named action's lane carries its name), and no lane for an
\* empty or missing list.
C6_OneLanePerAction ==
    /\ Len(lanes) = Len(Configured)
    /\ \A k \in Slots : NameAt(k) # "" => At(lanes, k).displayName = NameAt(k)
    /\ (~parameters.actions.present \/ parameters.actions.action = <<>>)
           => lanes = <<>>

C6_Witness ==
    /\ Configured = <<[name |-> ""], [name |-> "Approve"]>>
    /\ Len(lanes) = 2
    /\ lastCall = "configuredOutputs"

FallbackName(k) ==
    IF k = 0 THEN "Action 0" ELSE IF k = 1 THEN "Action 1"
    ELSE IF k = 2 THEN "Action 2" ELSE "Action 3"

\* C7: lane i is labelled with the name of action i, or with "Action i"
\* (i counted from 0) when that name is empty.
C7_DisplayName ==
    \A k \in Slots :
        At(lanes, k).displayName = (IF NameAt(k) # "" THEN NameAt(k) ELSE FallbackName(k))

C7_Witness ==
    /\ Configured = <<[name |-> "Approve"], [name |-> ""]>>
    /\ At(lanes, 1).displayName = "Action 1"
    /\ At(lanes, 0).displayName = "Approve"

\* C8: a dispatch result has as many slots as the resolver gives lanes, and
\* its populated slot is the lane of the action the callback named.
C8_ResultMatchesLanes ==
    \A r \in Calls :
        IsResponse(r)
            => /\ Len(results[r].outcome.workflowData) = Len(lanes)
               /\ \A k \in Slots :
                      At(results[r].outcome.workflowData, k) # <<>>
                          => /\ At(lanes, k).displayName = ActionOf(r).s
                             /\ NameAt(k) = ActionOf(r).s

C8_Witness ==
    \E r \in Calls :
        /\ IsResponse(r)
        /\ Len(lanes) = 2
        /\ At(results[r].outcome.workflowData, 1) # <<>>
        /\ At(lanes, 1).displayName = "Decline"

C10_SuspendAndPassThrough ==
    phase \in {"suspended", "dispatching"}
        => /\ waitTill = "3000-01-01T00:00:00.000Z"
           /\ Len(execOutput) = 1
           /\ execOutput[1] = inputData

C10_Witness ==
    /\ phase = "suspended"
    /\ Len(lanes) = 2
    /\ Len(inputData) = 2
    /\ execOutput = <<inputData>>


\* the messages an unknown-action error can carry
UnknownMessages ==
    {"Unknown action: " \o x :
        x \in {"", "Approve", "Decline", "Action 1", "Other", "7", "null", "undefined"}}

\* C11 as stated: with no action configured, every callback, whatever its
\* payload, fails with the unknown-action error.
C11_AsStated ==
    Len(Configured) = 0
        => \A r \in Calls : IsError(r) /\ results[r].outcome.message \in UnknownMessages

\* C11 amended: with no action configured, every callback fails and none
\* gives a dispatch result: with the unknown-action error when its action is
\* present and not falsy, with the missing-action error otherwise.
C11_ZeroActionsNeverDispatch ==
    Len(Configured) = 0
        => \A r \in Calls :
               IF ActionOf(r).kind \in {"undefined", "null"} \/ ActionOf(r) = Str("")
               THEN FailsWith(r, "No \"action\" received.")
               ELSE FailsWith(r, UnknownMessage(ActionOf(r)))

C11_Witness ==
    /\ ~parameters.actions.present
    /\ \E r \in Calls :
           ActionOf(r) = Str("Approve") /\ FailsWith(r, "Unknown action: Approve")

\* C12: on a dispatch the one record of the populated slot carries the
\* callback body, field for field, and the reference to input item 0; the
\* callback is answered 'OK' together with the result.
C12_RecordAndAcknowledgement ==
    \A r \in Calls :
        IsResponse(r)
            => /\ results[r].outcome.webhookResponse = "OK"
               /\ \A k \in Slots :
                      At(results[r].outcome.workflowData, k) # <<>>
                          => /\ Len(At(results[r].outcome.workflowData, k)) = 1
                             /\ At(results[r].outcome.workflowData, k)[1].json
                                    = results[r].body
                             /\ At(results[r].outcome.workflowData, k)[1].pairedItem
                                    = [item |-> 0]

C12_Witness ==
    \E r \in Calls :
        /\ results[r].body = [action |-> Str("Decline"), note |-> Str("too risky")]
        /\ results[r].outcome.webhookResponse = "OK"
        /\ At(results[r].outcome.workflowData, 1)
               = <<[json |-> [action |-> Str("Decline"), note |-> Str("too risky")],
                    pairedItem |-> [item |-> 0]]>>


\* C13: the request built at run-start lists one {name} per configured
\* action, in the configured order (as many as there are lanes), and carries
\* the configured subject and message.
C13_RequestListsActions ==
    requestBody.built
        => /\ Len(requestBody.actions) = Len(Configured)
           /\ Len(requestBody.actions) = Len(lanes)
           /\ \A k \in Slots : At(requestBody.actions, k) = [name |-> NameAt(k)]
           /\ requestBody.subject = parameters.subject
           /\ requestBody.message = parameters.message

C13_Witness ==
    /\ requestBody.built
    /\ requestBody.subject = "Deploy v2"
    /\ requestBody.message = "Ship it?"
    /\ requestBody.actions = <<[name |-> "Approve"], [name |-> ""]>>

\* C14: the callback address of the request is the run's resume url, a
\* slash and the node's id; a node with another id in the same run would
\* get another address.
C14_CallbackAddress ==
    requestBody.built
        => /\ requestBody.webhook_url = resumeUrl \o "/" \o nodeId
           /\ \A other \in NodeIds \ {nodeId} :
                  requestBody.webhook_url # resumeUrl \o "/" \o other

C14_Witness ==
    /\ requestBody.built
    /\ nodeId = "n2"
    /\ requestBody.webhook_url = "http://host/webhook-waiting/7/n2"


\* C15: a suspended run waits without a deadline, and the only step that
\* takes it out of the suspended state is the handling of a callback.
C15_StaysSuspended ==
    [][/\ phase = "suspended" => waitTill = "3000-01-01T00:00:00.000Z"
       /\ (phase = "suspended" /\ phase' # "suspended") => lastCall' = "webhook"]_vars

C15_Witness ==
    /\ phase = "suspended"
    /\ Len(results) = 2
    /\ lastCall = "configuredOutputs"

\* C16: the wait is asked for only after the request has been built and
\* logged, and a run whose start threw has asked for no wait and returned
\* nothing; no suspended run lacks its request.
C16_RequestBeforeSuspend ==
    /\ waitTill # "unset"
           => /\ requestBody.built
              /\ \E i \in 1..Len(log) :
                     log[i].level = "warn" /\ log[i].data = requestBody
    /\ phase = "failed" => (waitTill = "unset" /\ execOutput = <<>>)
    /\ phase \in {"suspended", "dispatching"} => requestBody.built

C16_Witness ==
    /\ phase = "suspended"
    /\ requestBody.built
    /\ log = <<[level |-> "warn", message |-> "Starting workflow with arguments:",
                data |-> requestBody]>>


\* C17 as stated: whatever index the lookup gives, the record is in slot 0
\* of the result and every other slot is empty.
C17_AsStated ==
    \A r \in Calls :
        IsResponse(r)
            => /\ At(results[r].outcome.workflowData, 0) # <<>>
               /\ \A k \in Slots : k # 0 => At(results[r].outcome.workflowData, k) = <<>>

\* C17 amended: the record is in the slot whose index the lookup gave (the
\* lowest index carrying the callback's action) and in no other slot.
C17_WritesResolvedSlot ==
    \A r \in Calls :
        IsResponse(r)
            => \A k \in Slots :
                   At(results[r].outcome.workflowData, k) # <<>> <=> FirstMatch(r, k)

C17_Witness ==
    \E r \in Calls :
        /\ Configured = <<[name |-> ""], [name |-> "Approve"]>>
        /\ ActionOf(r) = Str("Approve")
        /\ At(results[r].outcome.workflowData, 0) = <<>>
        /\ At(results[r].outcome.workflowData, 1) # <<>>

C19_EmptyActionRejected ==
    /\ \A r \in Calls :
           ActionOf(r) = Str("") => FailsWith(r, "No \"action\" received.")
    /\ \A r \in Calls : \A k \in Slots :
           (IsResponse(r) /\ NameAt(k) = "")
               => At(results[r].outcome.workflowData, k) = <<>>

C19_Witness ==
    \E r \in Calls :
        /\ ActionOf(r) = Str("")
        /\ Configured = <<[name |-> "Approve"], [name |-> ""]>>
        /\ FailsWith(r, "No \"action\" received.")

\* C20: for an action with an empty name at index i, a callback whose action
\* is the lane's label "Action i" fails with the unknown-action error, unless
\* an action is literally named "Action i": then it goes to the lowest index
\* with that name.
C20_MatchesRawName ==
    \A r \in Calls : \A k \in Slots :
        (NameAt(k) = "" /\ ActionOf(r) = Str(FallbackName(k)))
            => IF \E j \in Slots : NameAt(j) = FallbackName(k)
               THEN /\ OnlySlot(r, LowestIndexOf(FallbackName(k)))
                    /\ LowestIndexOf(FallbackName(k)) # k
               ELSE FailsWith(r, "Unknown action: " \o FallbackName(k))

C20_Witness ==
    \E r \in Calls :
        /\ Configured = <<[name |-> "Approve"], [name |-> ""]>>
        /\ At(lanes, 1).displayName = "Action 1"
        /\ ActionOf(r) = Str("Action 1")
        /\ FailsWith(r, "Unknown action: Action 1")

====
